---- MODULE Spec2Model ----
(***************************************************************************)
(* Model of the cursor_handler codecs: the static cursor directory format  *)
(* (src/src/cur.rs, CursorFile) and the animated cursor RIFF container     *)
(* (src/src/ani.rs, AniFile).  Streams are sequences of bytes (0..255);    *)
(* positions are 0-based byte offsets as in the Rust code, so the byte at  *)
(* offset p of a stream s is s[p + 1].                                     *)
(***************************************************************************)
EXTENDS Integers, Sequences, FiniteSets, TLC

VARIABLES
    pc,           \* position of the driver: which operation comes next
    cursor_file,  \* CursorFile.frames of the file being encoded
    ani_file,     \* AniFile {header, frames, sequence, rates} being built / encoded
    enc_result,   \* io::Result of the last encode: "none", "Ok" or an error kind
    stream,       \* bytes held by the writer / offered to the reader
    base,         \* ghost: the stream before the last edit (truncate, insert, ...)
    edit,         \* ghost: how `stream` was obtained from `base`
    reader_pos,   \* CursorFile::decode: reader.stream_position()
    count,        \* CursorFile::decode: local `count`
    entries,      \* CursorFile::decode: local `entries`
    frames,       \* CursorFile::decode: local `frames`
    reads,        \* ghost: log of the reads CursorFile::decode has made, in order
    cur_result,   \* io::Result<CursorFile> of CursorFile::decode
    ani_result,   \* io::Result<AniFile> of AniFile::decode
    prev_result,  \* ghost: ani_result of the decode of `base`
    build         \* the build the decoder runs in: "unset" until it first runs

vars == <<pc, cursor_file, ani_file, enc_result, stream, base, edit, reader_pos,
          count, entries, frames, reads, cur_result, ani_result, prev_result, build>>

----------------------------------------------------------------------------
(* Bounds of the model *)

MaxFrames == 2       \* longest CursorFile frame list explored
MaxPayloadLen == 2   \* longest generated CUR payload
MaxAniFrames == 2    \* longest AniFile frame list explored

----------------------------------------------------------------------------
(* Binary primitives *)

Pow256(k) == IF k = 0 THEN 1 ELSE IF k = 1 THEN 256 ELSE IF k = 2 THEN 65536 ELSE 16777216

\* u32::to_le_bytes / u16::to_le_bytes of n truncated to k bytes (`as u32`, `as u16`)
ToLeBytes(n, k) == [i \in 1..k |-> (n \div Pow256(i - 1)) % 256]

\* u32::from_le_bytes / u16::from_le_bytes
RECURSIVE FromLeBytes(_)
FromLeBytes(b) == IF b = <<>> THEN 0 ELSE b[1] + 256 * FromLeBytes(Tail(b))

\* `x as u8`
AsU8(x) == x % 256

\* Stands for 2^32, which a TLC integer (32-bit signed) cannot hold.  The model only
\* needs it to lie beyond the end of every stream it holds.
TwoPow32 == 1073741824

\* u32 arithmetic of a release build (wrapping): x mod 2^32, for x in -2^32 .. 2^31 - 1
WrapU32(x) == IF x >= 0 THEN x ELSE TwoPow32 + x

\* the bytes of s at offsets p .. p+n-1
Slice(s, p, n) == SubSeq(s, p + 1, p + n)

\* Read::read_exact of n bytes at position p: succeeds iff n bytes are left
CanRead(s, p, n) == p + n <= Len(s)

\* position after a failed read_exact: everything left has been consumed
EofPos(s, p) == IF p < Len(s) THEN Len(s) ELSE p

----------------------------------------------------------------------------
(* Cursor Directory Codec: src/src/cur.rs *)

CursorFrame(w, h, hx, hy, data) ==
    [width |-> w, height |-> h, hotspot_x |-> hx, hotspot_y |-> hy, image_data |-> data]

\* width_byte / height_byte of a directory entry
DimByte(d) == IF d = 256 THEN 0 ELSE AsU8(d)

\* 6 + 16 * N with only the first entry counted
DirSizeOneEntry(n) == 6 + 16

\* dir_size: the header and N directory entries
DirSize(n) == 6 + (n * 16)

\* the directory entries of fs[i..], the first payload at `offset`
RECURSIVE CurDirEntries(_, _, _)
CurDirEntries(fs, i, offset) ==
    IF i > Len(fs) THEN <<>>
    ELSE LET f == fs[i] IN
         <<DimByte(f.width), DimByte(f.height), 0, 0>>
         \o ToLeBytes(f.hotspot_x, 2)
         \o ToLeBytes(f.hotspot_y, 2)
         \o ToLeBytes(Len(f.image_data), 4)
         \o ToLeBytes(offset, 4)
         \o CurDirEntries(fs, i + 1, WrapU32(offset + Len(f.image_data)))

\* the payloads of fs[i..], back to back
RECURSIVE CurImageData(_, _)
CurImageData(fs, i) ==
    IF i > Len(fs) THEN <<>> ELSE fs[i].image_data \o CurImageData(fs, i + 1)

\* CursorFile::encode: the io::Result and the bytes written
CurEncodeOf(fs) ==
    IF fs = <<>>
    THEN [status |-> "InvalidInput", bytes |-> <<>>]
    ELSE [status |-> "Ok",
          bytes  |-> <<0, 0, 2, 0>> \o ToLeBytes(Len(fs), 2)
                     \o CurDirEntries(fs, 1, DirSize(Len(fs)))
                     \o CurImageData(fs, 1)]

\* the 0 -> 256 rule left out
DimOfByteRaw(b) == b

\* width / height of a directory entry byte: 0 stands for 256
DimOfByte(b) == IF b = 0 THEN 256 ELSE b

\* one parsed 16-byte directory entry: (width, height, hotspot_x, hotspot_y, size, offset)
ParseEntry(e) ==
    [width     |-> DimOfByte(e[1]),
     height    |-> DimOfByte(e[2]),
     hotspot_x |-> FromLeBytes(SubSeq(e, 5, 6)),
     hotspot_y |-> FromLeBytes(SubSeq(e, 7, 8)),
     size      |-> FromLeBytes(SubSeq(e, 9, 12)),
     offset    |-> FromLeBytes(SubSeq(e, 13, 16))]

\* payloads assumed packed back to back after the directory
SeekTargetSequential(es, i) ==
    IF i = 1 THEN DirSize(Len(es)) ELSE es[i - 1].offset + es[i - 1].size

\* SeekFrom::Start(offset) of the i-th entry
SeekTarget(es, i) == es[i].offset

NoResult == [status |-> "none"]
Err(kind, msg) == [status |-> "Err", kind |-> kind, msg |-> msg]

----------------------------------------------------------------------------
(* Animated Cursor Codec: src/src/ani.rs *)

RIFF == <<82, 73, 70, 70>>      \* b"RIFF"
ACON == <<65, 67, 79, 78>>      \* b"ACON"
anih == <<97, 110, 105, 104>>   \* b"anih"
seq_ == <<115, 101, 113, 32>>   \* b"seq "
rate == <<114, 97, 116, 101>>   \* b"rate"
LIST == <<76, 73, 83, 84>>      \* b"LIST"
fram == <<102, 114, 97, 109>>   \* b"fram"
icon == <<105, 99, 111, 110>>   \* b"icon"

\* AniHeader::SIZE
AniHeaderSize == 36

\* Option<u32>: None is <<>>, Some(d) is <<d>>
None == <<>>
Some(d) == <<d>>

AniFrame(w, h, hx, hy, data, dur) ==
    [width |-> w, height |-> h, hotspot_x |-> hx, hotspot_y |-> hy,
     image_data |-> data, duration |-> dur]

\* AniHeader::new
AniHeaderNew ==
    [num_frames |-> 0, num_steps |-> 0, width |-> 0, height |-> 0,
     bit_count |-> 0, planes |-> 0, default_rate |-> 6, flags |-> 0]

\* (0..n).collect::<Vec<_>>()
Identity(n) == [i \in 1..n |-> i - 1]

\* AniFile::new
AniNewOf(fs) ==
    LET n  == Len(fs)
        h0 == [AniHeaderNew EXCEPT !.num_frames = n, !.num_steps = n]
        h1 == IF n > 0
              THEN [h0 EXCEPT !.width = fs[1].width, !.height = fs[1].height,
                              !.bit_count = 32, !.planes = 1]
              ELSE h0
    IN [header |-> h1, frames |-> fs, sequence |-> Identity(n), rates |-> <<>>]

\* AniFile::with_sequence
WithSequenceOf(file, sequence) ==
    [file EXCEPT !.header.num_steps = Len(sequence), !.sequence = sequence]

\* AniFile::with_rates
WithRatesOf(file, rates) == [file EXCEPT !.rates = rates]

\* a Write + Seek sink: the bytes held and the stream position
NewWriter == [buf |-> <<>>, pos |-> 0]

\* Write::write_all at the current position (overwrites, then extends)
WriteAll(w, b) ==
    LET buf == w.buf
        pos == w.pos
        n   == Len(b)
    IN IF pos = Len(buf)
       THEN [buf |-> buf \o b, pos |-> pos + n]
       ELSE LET last == IF pos + n > Len(buf) THEN pos + n ELSE Len(buf) IN
            [buf |-> [i \in 1..last |->
                         IF i > pos /\ i <= pos + n THEN b[i - pos]
                         ELSE IF i <= Len(buf) THEN buf[i] ELSE 0],
             pos |-> pos + n]

\* Seek::seek(SeekFrom::Start(p))
SeekStart(w, p) == [w EXCEPT !.pos = p]

\* the values of a Vec<u32> as consecutive little-endian words
RECURSIVE Words(_)
Words(v) == IF v = <<>> THEN <<>> ELSE ToLeBytes(v[1], 4) \o Words(Tail(v))

\* the body of the anih chunk: structure size, then the eight header fields
AnihBody(h) ==
    ToLeBytes(AniHeaderSize, 4)
    \o ToLeBytes(h.num_frames, 4) \o ToLeBytes(h.num_steps, 4)
    \o ToLeBytes(h.width, 4) \o ToLeBytes(h.height, 4)
    \o ToLeBytes(h.bit_count, 4) \o ToLeBytes(h.planes, 4)
    \o ToLeBytes(h.default_rate, 4) \o ToLeBytes(h.flags, 4)

\* the sequence compared with the identity over its own length
SequenceDiffersOwnLength(file) == file.sequence # Identity(Len(file.sequence))

\* "Write sequence if different from default"
SequenceDiffers(file) == file.sequence # Identity(file.header.num_frames)

\* the "seq " chunk, when written
SeqChunk(file) ==
    IF SequenceDiffers(file)
    THEN seq_ \o ToLeBytes(Len(file.sequence) * 4, 4) \o Words(file.sequence)
    ELSE <<>>

\* the "rate" chunk, when written
RateChunk(file) ==
    IF file.rates # <<>>
    THEN rate \o ToLeBytes(Len(file.rates) * 4, 4) \o Words(file.rates)
    ELSE <<>>

\* no pad byte at all
IconPadNever(len) == <<>>

\* "Pad to even boundary"
IconPad(len) == IF len % 2 # 0 THEN <<0>> ELSE <<>>

\* the loop over self.frames: one icon sub-chunk per frame
RECURSIVE WriteIcons(_, _, _)
WriteIcons(w, fs, i) ==
    IF i > Len(fs) THEN w
    ELSE LET data == fs[i].image_data IN
         WriteIcons(
             WriteAll(WriteAll(WriteAll(WriteAll(w, icon), ToLeBytes(Len(data), 4)),
                               data), IconPad(Len(data))),
             fs, i + 1)

\* "let file_end = writer.stream_position()?" after the LIST size was patched
FileEnd(w) == w.pos

\* AniFile::encode: the io::Result and the bytes written
AniEncodeOf(file) ==
    IF file.frames = <<>>
    THEN [status |-> "InvalidInput", bytes |-> <<>>]
    ELSE LET w1  == WriteAll(NewWriter, RIFF)
             file_size_pos == w1.pos
             w2  == WriteAll(WriteAll(w1, <<0, 0, 0, 0>>), ACON)
             start_pos == w2.pos
             w3  == WriteAll(WriteAll(WriteAll(w2, anih), ToLeBytes(AniHeaderSize, 4)),
                             AnihBody(file.header))
             w4  == WriteAll(w3, SeqChunk(file))
             w5  == WriteAll(w4, RateChunk(file))
             w6  == WriteAll(w5, LIST)
             list_size_pos == w6.pos
             w7  == WriteAll(WriteAll(w6, <<0, 0, 0, 0>>), fram)
             list_start == w7.pos
             w8  == WriteIcons(w7, file.frames, 1)
             list_end == w8.pos
             list_size == WrapU32(list_end - list_start)
             w9  == WriteAll(SeekStart(w8, list_size_pos), ToLeBytes(list_size, 4))
             file_end == FileEnd(w9)
             file_size == WrapU32(file_end - start_pos + 4)
             w10 == WriteAll(SeekStart(w9, file_size_pos), ToLeBytes(file_size, 4))
         IN [status |-> "Ok", bytes |-> w10.buf]

\* the anih arm: the fields are taken only from a body of at least 36 bytes
ParseAnih(h, d) ==
    IF Len(d) >= 36
    THEN [num_frames   |-> FromLeBytes(SubSeq(d, 5, 8)),
          num_steps    |-> FromLeBytes(SubSeq(d, 9, 12)),
          width        |-> FromLeBytes(SubSeq(d, 13, 16)),
          height       |-> FromLeBytes(SubSeq(d, 17, 20)),
          bit_count    |-> FromLeBytes(SubSeq(d, 21, 24)),
          planes       |-> FromLeBytes(SubSeq(d, 25, 28)),
          default_rate |-> FromLeBytes(SubSeq(d, 29, 32)),
          flags        |-> FromLeBytes(SubSeq(d, 33, 36))]
    ELSE h

\* seq_data.chunks_exact(4) read as u32 values (a remainder of 1..3 bytes is dropped)
RECURSIVE ChunksExact4(_)
ChunksExact4(d) ==
    IF Len(d) < 4 THEN <<>>
    ELSE <<FromLeBytes(SubSeq(d, 1, 4))>> \o ChunksExact4(SubSeq(d, 5, Len(d)))

\* a variant that takes the blob for a bare directory entry, without the 6-byte header
ParseCursorDataNoHeader(d) ==
    AniFrame(DimOfByte(d[1]), DimOfByte(d[2]),
             FromLeBytes(SubSeq(d, 5, 6)), FromLeBytes(SubSeq(d, 7, 8)),
             d, None)

\* AniFile::parse_cursor_data on a blob of at least 22 bytes
ParseCursorData(d) ==
    AniFrame(DimOfByte(d[7]), DimOfByte(d[8]),
             FromLeBytes(SubSeq(d, 11, 12)), FromLeBytes(SubSeq(d, 13, 14)),
             d, None)

\* "Skip padding" / "Handle padding": one byte read when size is odd, failure ignored
AfterPad(s, p, size) ==
    IF size % 2 # 0 THEN (IF CanRead(s, p, 1) THEN p + 1 ELSE EofPos(s, p)) ELSE p

\* the builds whose arithmetic differs: overflow checks on (debug) or off (release)
Builds == {"debug", "release"}

Panic == [status |-> "Panic"]

\* the while loop over the sub-chunks of LIST "fram": from position p up to `limit`
RECURSIVE IconLoop(_, _, _, _)
IconLoop(s, p, limit, fs) ==
    IF ~(p < limit) THEN [status |-> "Ok", pos |-> p, frames |-> fs]
    ELSE IF ~CanRead(s, p, 8) THEN [status |-> "Ok", pos |-> EofPos(s, p), frames |-> fs]
    ELSE IF Slice(s, p, 4) = icon
    THEN LET icon_size == FromLeBytes(Slice(s, p + 4, 4)) IN
         IF ~CanRead(s, p + 8, icon_size) THEN Err("UnexpectedEof", "icon")
         ELSE LET icon_data == Slice(s, p + 8, icon_size) IN
              IF Len(icon_data) < 22 THEN Err("InvalidData", "Invalid cursor data")
              ELSE IconLoop(s, AfterPad(s, p + 8 + icon_size, icon_size), limit,
                            Append(fs, ParseCursorData(icon_data)))
    ELSE IconLoop(s, p + 8, limit, fs)

\* a body that cannot be read in full ends the loop like a missing header
BodyEofBreaks(acc, what) == [status |-> "Ok", acc |-> acc]

\* read_exact(...)? inside a chunk body: the error is returned to the caller
BodyEof(acc, what) == Err("UnexpectedEof", what)

\* Seek::seek(SeekFrom::Current(n)): seeking past the end is allowed
SeekCurrent(p, n) == p + n

\* the chunk loop of AniFile::decode from position p; acc holds header, sequence,
\* rates and frames as parsed so far
RECURSIVE ChunkLoop(_, _, _, _)
ChunkLoop(s, p, acc, bld) ==
    IF ~CanRead(s, p, 8) THEN [status |-> "Ok", acc |-> acc]
    ELSE LET chunk_id   == Slice(s, p, 4)
             chunk_size == FromLeBytes(Slice(s, p + 4, 4))
             q          == p + 8
         IN
         IF chunk_id = anih THEN
             IF ~CanRead(s, q, chunk_size) THEN BodyEof(acc, "anih")
             ELSE ChunkLoop(s, AfterPad(s, q + chunk_size, chunk_size),
                            [acc EXCEPT !.header = ParseAnih(@, Slice(s, q, chunk_size))],
                            bld)
         ELSE IF chunk_id = seq_ THEN
             IF ~CanRead(s, q, chunk_size) THEN BodyEof(acc, "seq")
             ELSE ChunkLoop(s, AfterPad(s, q + chunk_size, chunk_size),
                            [acc EXCEPT !.sequence = @ \o ChunksExact4(Slice(s, q, chunk_size))],
                            bld)
         ELSE IF chunk_id = rate THEN
             IF ~CanRead(s, q, chunk_size) THEN BodyEof(acc, "rate")
             ELSE ChunkLoop(s, AfterPad(s, q + chunk_size, chunk_size),
                            [acc EXCEPT !.rates = @ \o ChunksExact4(Slice(s, q, chunk_size))],
                            bld)
         ELSE IF chunk_id = LIST THEN
             IF ~CanRead(s, q, 4) THEN BodyEof(acc, "list_type")
             ELSE IF chunk_size < 4 /\ bld = "debug" THEN Panic
             ELSE LET list_type == Slice(s, q, 4)
                      remaining == WrapU32(chunk_size - 4)
                  IN IF list_type = fram
                     THEN LET r == IconLoop(s, q + 4, q + 4 + remaining, acc.frames) IN
                          IF r.status # "Ok" THEN r
                          ELSE ChunkLoop(s, AfterPad(s, r.pos, chunk_size),
                                         [acc EXCEPT !.frames = r.frames], bld)
                     ELSE ChunkLoop(s, AfterPad(s, SeekCurrent(q + 4, remaining), chunk_size),
                                    acc, bld)
         ELSE ChunkLoop(s, AfterPad(s, SeekCurrent(q, chunk_size), chunk_size), acc, bld)

\* AniFile::decode: the io::Result<AniFile> for stream s
AniDecodeOf(s, bld) ==
    IF ~CanRead(s, 0, 12) THEN Err("UnexpectedEof", "riff_header")
    ELSE IF Slice(s, 0, 4) # RIFF THEN Err("InvalidData", "Not a RIFF file")
    ELSE IF Slice(s, 8, 4) # ACON THEN Err("InvalidData", "Not an ANI file")
    ELSE LET r == ChunkLoop(s, 12,
                            [header |-> AniHeaderNew, sequence |-> <<>>,
                             rates |-> <<>>, frames |-> <<>>], bld)
         IN IF r.status # "Ok" THEN r
            ELSE [status |-> "Ok",
                  file   |-> [header   |-> r.acc.header,
                              frames   |-> r.acc.frames,
                              sequence |-> IF r.acc.sequence = <<>>
                                           THEN Identity(r.acc.header.num_frames)
                                           ELSE r.acc.sequence,
                              rates    |-> r.acc.rates]]

----------------------------------------------------------------------------
(* Inputs *)

\* payload bytes of length n, varied by seed
Payload(n, seed) == [i \in 1..n |-> (seed + 85 * i) % 256]

\* <<width, height, hotspot_x, hotspot_y>>: the extremes of the data model
Shapes == {<<1, 256, 0, 65535>>, <<256, 32, 258, 7>>, <<255, 1, 128, 128>>}

CurFrameChoices ==
    {CursorFrame(sh[1], sh[2], sh[3], sh[4], Payload(n, sh[1])) :
        sh \in Shapes, n \in 0..MaxPayloadLen}

\* sequences over S of length 0..n
SeqsUpTo(S, n) == UNION {[1..k -> S] : k \in 0..n}

\* frame A (32x32, hotspot (0,0), 100 bytes) and frame B (256x256, hotspot (128,128),
\* 50 bytes)
ScenarioFrames ==
    <<CursorFrame(32, 32, 0, 0, Payload(100, 1)),
      CursorFrame(256, 256, 128, 128, Payload(50, 2))>>

CurFileChoices == SeqsUpTo(CurFrameChoices, MaxFrames) \cup {ScenarioFrames}

\* a single-image cursor resource of 22 + n bytes
Blob(w, h, hx, hy, n) == CurEncodeOf(<<CursorFrame(w, h, hx, hy, Payload(n, w))>>).bytes

AniFrameChoices ==
    {AniFrame(32, 32, 8, 9, Blob(32, 32, 8, 9, 0), None),        \* even payload
     AniFrame(256, 1, 0, 65535, Blob(256, 1, 0, 65535, 1), None), \* odd payload
     AniFrame(32, 32, 8, 9, Blob(32, 32, 8, 9, 2), Some(100)),    \* with a duration
     AniFrame(48, 48, 1, 1, Blob(16, 16, 0, 0, 0), None),         \* geometry differs from blob
     AniFrame(1, 1, 0, 0, <<1, 2, 3>>, None)}                     \* payload shorter than 22

AniFileChoices == SeqsUpTo(AniFrameChoices, MaxAniFrames)

SequenceChoices == {<<>>, <<0>>, <<0, 1>>, <<1, 0>>, <<0, 1, 0>>, <<0, 1, 2>>}

RatesChoices == {<<>>, <<6>>, <<5, 10>>, <<1, 2, 3>>}

----------------------------------------------------------------------------
(* The driver: one file is built and encoded, or one stream is opened, then decoded *)

NoEdit == [kind |-> "none"]

Init ==
    /\ pc = "start"
    /\ cursor_file = <<>>
    /\ ani_file = AniNewOf(<<>>)
    /\ enc_result = "none"
    /\ stream = <<>>
    /\ base = <<>>
    /\ edit = NoEdit
    /\ reader_pos = 0
    /\ count = 0
    /\ entries = <<>>
    /\ frames = <<>>
    /\ reads = <<>>
    /\ cur_result = NoResult
    /\ ani_result = NoResult
    /\ prev_result = NoResult
    /\ build = "unset"

decodeVars == <<reader_pos, count, entries, frames, reads, cur_result>>

\* CursorFile::new
CurNew ==
    /\ pc = "start"
    /\ \E fs \in CurFileChoices : cursor_file' = fs
    /\ pc' = "cur_built"
    /\ UNCHANGED <<ani_file, enc_result, stream, base, edit, decodeVars, ani_result,
                   prev_result, build>>

\* CursorFile::encode into an empty writer
CurEncode ==
    /\ pc = "cur_built"
    /\ LET r == CurEncodeOf(cursor_file) IN
       /\ enc_result' = r.status
       /\ stream' = r.bytes
       /\ base' = r.bytes
       /\ pc' = IF r.status = "Ok" THEN "cur_open" ELSE "cur_failed"
    /\ UNCHANGED <<cursor_file, ani_file, edit, decodeVars, ani_result, prev_result, build>>

\* the resource type taken from its low byte only
ResourceTypeLowByte(header) == header[3]

\* u16::from_le_bytes([header[2], header[3]])
ResourceType(header) == FromLeBytes(SubSeq(header, 3, 4))

\* CursorFile::decode, "Read header": the 6 bytes, the type check and the count check
CurDecodeHeader ==
    /\ pc = "cur_open"
    /\ IF ~CanRead(stream, 0, 6)
       THEN /\ cur_result' = Err("UnexpectedEof", "header")
            /\ reader_pos' = EofPos(stream, 0)
            /\ pc' = "cur_done"
            /\ UNCHANGED <<count, reads>>
       ELSE LET header == Slice(stream, 0, 6)
                cnt    == FromLeBytes(SubSeq(header, 5, 6))
            IN /\ reader_pos' = 6
               /\ reads' = Append(reads, [what |-> "header", at |-> 0, len |-> 6])
               /\ IF ResourceType(header) # 2
                  THEN /\ cur_result' = Err("InvalidData", "Not a cursor file")
                       /\ pc' = "cur_done"
                       /\ UNCHANGED count
                  ELSE IF cnt = 0
                  THEN /\ cur_result' = Err("InvalidData", "No frames")
                       /\ pc' = "cur_done"
                       /\ UNCHANGED count
                  ELSE /\ count' = cnt
                       /\ pc' = "cur_entries"
                       /\ UNCHANGED cur_result
    /\ UNCHANGED <<cursor_file, ani_file, enc_result, stream, base, edit, entries, frames,
                   ani_result, prev_result, build>>

\* CursorFile::decode, "Read directory entries": one pass of the first loop
CurReadEntry ==
    /\ pc = "cur_entries"
    /\ IF ~CanRead(stream, reader_pos, 16)
       THEN /\ cur_result' = Err("UnexpectedEof", "entry")
            /\ reader_pos' = EofPos(stream, reader_pos)
            /\ pc' = "cur_done"
            /\ UNCHANGED <<entries, reads>>
       ELSE /\ entries' = Append(entries, ParseEntry(Slice(stream, reader_pos, 16)))
            /\ reads' = Append(reads, [what |-> "entry", at |-> reader_pos, len |-> 16])
            /\ reader_pos' = reader_pos + 16
            /\ pc' = IF Len(entries') = count THEN "cur_payloads" ELSE "cur_entries"
            /\ UNCHANGED cur_result
    /\ UNCHANGED <<cursor_file, ani_file, enc_result, stream, base, edit, count, frames,
                   ani_result, prev_result, build>>

\* CursorFile::decode, "Read image data": one pass of the second loop
CurReadPayload ==
    /\ pc = "cur_payloads"
    /\ LET i      == Len(frames) + 1
           e      == entries[i]
           target == SeekTarget(entries, i)
       IN IF ~CanRead(stream, target, e.size)
          THEN /\ cur_result' = Err("UnexpectedEof", "image_data")
               /\ reader_pos' = EofPos(stream, target)
               /\ pc' = "cur_done"
               /\ UNCHANGED <<frames, reads>>
          ELSE /\ frames' = Append(frames,
                                   CursorFrame(e.width, e.height, e.hotspot_x, e.hotspot_y,
                                               Slice(stream, target, e.size)))
               /\ reads' = Append(reads, [what |-> "image_data", at |-> target, len |-> e.size])
               /\ reader_pos' = target + e.size
               /\ IF Len(frames') = count
                  THEN /\ pc' = "cur_done"
                       /\ cur_result' = [status |-> "Ok", frames |-> frames']
                  ELSE /\ pc' = "cur_payloads"
                       /\ UNCHANGED cur_result
    /\ UNCHANGED <<cursor_file, ani_file, enc_result, stream, base, edit, count, entries,
                   ani_result, prev_result, build>>

\* AniFile::new
AniNew ==
    /\ pc = "start"
    /\ \E fs \in AniFileChoices : ani_file' = AniNewOf(fs)
    /\ pc' = "ani_built"
    /\ UNCHANGED <<cursor_file, enc_result, stream, base, edit, decodeVars, ani_result,
                   prev_result, build>>

\* AniFile::with_sequence
WithSequence ==
    /\ pc = "ani_built"
    /\ \E sq \in SequenceChoices : ani_file' = WithSequenceOf(ani_file, sq)
    /\ pc' = "ani_seq"
    /\ UNCHANGED <<cursor_file, enc_result, stream, base, edit, decodeVars, ani_result,
                   prev_result, build>>

\* AniFile::with_rates
WithRates ==
    /\ pc \in {"ani_built", "ani_seq"}
    /\ \E rs \in RatesChoices : ani_file' = WithRatesOf(ani_file, rs)
    /\ pc' = "ani_rates"
    /\ UNCHANGED <<cursor_file, enc_result, stream, base, edit, decodeVars, ani_result,
                   prev_result, build>>

\* AniFile::encode into an empty seekable writer
AniEncode ==
    /\ pc \in {"ani_built", "ani_seq", "ani_rates"}
    /\ LET r == AniEncodeOf(ani_file) IN
       /\ enc_result' = r.status
       /\ stream' = r.bytes
       /\ base' = r.bytes
       /\ pc' = IF r.status = "Ok" THEN "ani_open" ELSE "ani_failed"
    /\ UNCHANGED <<cursor_file, ani_file, edit, decodeVars, ani_result, prev_result, build>>

\* AniFile::decode of the stream, in the build the program was compiled in
AniDecode ==
    /\ pc = "ani_open"
    /\ \E b \in (IF build = "unset" THEN Builds ELSE {build}) :
          /\ build' = b
          /\ ani_result' = AniDecodeOf(stream, b)
    /\ pc' = "ani_done"
    /\ UNCHANGED <<cursor_file, ani_file, enc_result, stream, base, edit, decodeVars,
                   prev_result>>

Next ==
    \/ CurNew \/ CurEncode \/ CurDecodeHeader \/ CurReadEntry \/ CurReadPayload
    \/ AniNew \/ WithSequence \/ WithRates \/ AniEncode \/ AniDecode

Spec == Init /\ [][Next]_vars

----------------------------------------------------------------------------
(* Streams handed to the decoders as they are: files not written by this encoder *)

RECURSIVE Concat(_)
Concat(ss) == IF ss = <<>> THEN <<>> ELSE ss[1] \o Concat(Tail(ss))

\* the 6-byte CUR header: reserved, resource type, frame count
CurHeaderBytes(type, cnt) == <<0, 0>> \o ToLeBytes(type, 2) \o ToLeBytes(cnt, 2)

\* one 16-byte CUR directory entry
CurEntryBytes(wb, hb, hx, hy, size, off) ==
    <<wb, hb, 0, 0>> \o ToLeBytes(hx, 2) \o ToLeBytes(hy, 2)
    \o ToLeBytes(size, 4) \o ToLeBytes(off, 4)

\* the bytes that follow the directory in the crafted CUR streams
CraftedData == <<10, 20, 30, 40, 50, 60>>

\* entries whose offsets point into the header, at the data, inside it and past its end
EntryChoices(n) ==
    {CurEntryBytes(IF size = 0 THEN 0 ELSE 7, 1, 3, 4, size, off) :
        size \in {0, 2, 3}, off \in {1, DirSize(n), DirSize(n) + 2, DirSize(n) + 5}}

CraftedCurStreams ==
    {CurHeaderBytes(2, n) \o Concat(es) \o CraftedData :
        n \in 1..MaxFrames, es \in UNION {[1..m -> EntryChoices(m)] : m \in 1..MaxFrames}}
    \cup {CurHeaderBytes(ty, c) \o rest :
            ty \in {0, 1, 2, 3, 258}, c \in {0, 1, 2},
            rest \in {<<>>, CurEntryBytes(7, 1, 3, 4, 2, 22) \o CraftedData}}
    \cup {SubSeq(CurHeaderBytes(1, 0), 1, k) : k \in 0..5}

\* a RIFF chunk: tag, declared size, body, pad byte when the size is odd
Chunk(tag, body) ==
    tag \o ToLeBytes(Len(body), 4) \o body \o (IF Len(body) % 2 # 0 THEN <<0>> ELSE <<>>)

\* a RIFF "ACON" container around the chunks
RiffWrap(chunks) == RIFF \o ToLeBytes(4 + Len(chunks), 4) \o ACON \o chunks

SampleHeader ==
    [num_frames |-> 2, num_steps |-> 3, width |-> 32, height |-> 32,
     bit_count |-> 32, planes |-> 1, default_rate |-> 6, flags |-> 1]

\* a 23-byte icon resource (type 1): width byte 0, and planes 1 and bit count 32 where
\* a cursor resource holds its hotspot
IconResource ==
    <<0, 0, 1, 0, 1, 0>> \o <<0, 16, 0, 0, 1, 0, 32, 0>> \o ToLeBytes(1, 4) \o ToLeBytes(22, 4)
    \o <<7>>

\* ANI streams: two written by AniFile::encode, four laid out by hand (chunks in another
\* order, odd declared sizes, an over-long anih, a sub-chunk that is not an icon, an
\* icon resource in place of a cursor resource, an icon payload of 21 bytes)
AniStreamChoices ==
    {AniEncodeOf(AniNewOf(<<AniFrame(256, 1, 0, 65535, Blob(256, 1, 0, 65535, 1), None)>>)).bytes,
     AniEncodeOf(WithRatesOf(WithSequenceOf(
         AniNewOf(<<AniFrame(32, 32, 8, 9, Blob(32, 32, 8, 9, 0), None),
                    AniFrame(256, 1, 0, 65535, Blob(256, 1, 0, 65535, 1), None)>>),
         <<1, 0>>), <<5, 10>>)).bytes,
     RiffWrap(Chunk(rate, Words(<<3>>) \o <<9>>)
              \o Chunk(anih, AnihBody(SampleHeader) \o <<1, 2, 3, 4>>)
              \o Chunk(LIST, fram \o Chunk(icon, Blob(1, 1, 0, 0, 1)))
              \o Chunk(seq_, Words(<<0, 0, 1>>))),
     RiffWrap(Chunk(anih, <<36, 0, 0, 0, 9, 9, 9, 9>>)
              \o Chunk(LIST, fram \o Chunk(<<116, 101, 120, 116>>, <<>>)
                             \o Chunk(icon, Blob(256, 256, 1, 2, 0)))),
     RiffWrap(Chunk(anih, AnihBody(SampleHeader))
              \o Chunk(LIST, fram \o Chunk(icon, IconResource))),
     RiffWrap(Chunk(anih, AnihBody(SampleHeader))
              \o Chunk(LIST, fram \o Chunk(icon, Blob(1, 1, 0, 0, 0))
                             \o Chunk(icon, SubSeq(Blob(1, 1, 0, 0, 0), 1, 21))
                             \o Chunk(icon, Blob(1, 1, 0, 0, 0))))}

\* the top-level chunks of s that are complete, from position p on: start, tag, size
RECURSIVE TopChunksFrom(_, _)
TopChunksFrom(s, p) ==
    IF ~CanRead(s, p, 8) THEN <<>>
    ELSE LET size == FromLeBytes(Slice(s, p + 4, 4)) IN
         IF ~CanRead(s, p + 8, size) THEN <<>>
         ELSE <<[start |-> p, tag |-> Slice(s, p, 4), size |-> size]>>
              \o TopChunksFrom(s, p + 8 + size + (size % 2))

TopChunks(s) == IF CanRead(s, 0, 12) THEN TopChunksFrom(s, 12) ELSE <<>>

\* where a top-level chunk may start in s: at each complete chunk and at the end
ChunkBoundaries(s) ==
    LET cs == TopChunks(s) IN {cs[i].start : i \in 1..Len(cs)} \cup {Len(s)}

JUNK == <<74, 85, 78, 75>>   \* b"JUNK": a tag the decoder does not know
INFO == <<73, 78, 70, 79>>   \* b"INFO": a LIST sub-type the decoder does not know

\* a chunk of declared size d holding d bytes (and the pad byte when d is odd)
DeclaredChunk(tag, d, body) ==
    tag \o ToLeBytes(d, 4) \o SubSeq(body, 1, d) \o (IF d % 2 # 0 THEN <<0>> ELSE <<>>)

ExtensionBody == INFO \o <<200, 201, 202, 203>>

\* chunks a vendor extension may add: an unknown tag, or a LIST of an unknown sub-type
ExtensionChunks ==
    {DeclaredChunk(JUNK, d, ExtensionBody) : d \in {0, 1, 4, 5}}
    \cup {DeclaredChunk(LIST, d, ExtensionBody) : d \in {0, 1, 2, 3, 4, 5, 8}}

\* a stream is opened for CursorFile::decode
CurOpen ==
    /\ pc = "start"
    /\ \E s \in CraftedCurStreams : stream' = s /\ base' = s
    /\ pc' = "cur_open"
    /\ UNCHANGED <<cursor_file, ani_file, enc_result, edit, decodeVars, ani_result,
                   prev_result, build>>

\* a stream is opened for AniFile::decode
AniOpen ==
    /\ pc = "start"
    /\ \E s \in AniStreamChoices : stream' = s /\ base' = s
    /\ pc' = "ani_open"
    /\ UNCHANGED <<cursor_file, ani_file, enc_result, edit, decodeVars, ani_result,
                   prev_result, build>>

\* the decoded stream is edited into `s` and offered again
Reopen(s, e) ==
    /\ pc = "ani_done"
    /\ edit = NoEdit
    /\ base' = stream
    /\ stream' = s
    /\ edit' = e
    /\ prev_result' = ani_result
    /\ ani_result' = NoResult
    /\ pc' = "ani_open"
    /\ UNCHANGED <<cursor_file, ani_file, enc_result, decodeVars, build>>

\* the file is cut after k bytes
Truncate ==
    \E k \in 0..(Len(stream) - 1) :
        Reopen(SubSeq(stream, 1, k), [kind |-> "truncate", at |-> k])

\* 1 to 7 bytes, too few for a chunk header, follow the last chunk
AppendJunk ==
    \E j \in 1..7 :
        Reopen(stream \o [i \in 1..j |-> 255 - i], [kind |-> "junk", at |-> Len(stream)])

\* an extension chunk is placed at a chunk boundary
InsertChunk ==
    /\ pc = "ani_done"
    /\ edit = NoEdit
    /\ \E b \in ChunkBoundaries(stream), c \in ExtensionChunks :
        Reopen(SubSeq(stream, 1, b) \o c \o SubSeq(stream, b + 1, Len(stream)),
               [kind |-> "insert", at |-> b, chunk |-> c])

\* one byte of the 12-byte RIFF prefix is changed
Corrupt ==
    \E i \in 1..12 :
        /\ i <= Len(stream)
        /\ Reopen([stream EXCEPT ![i] = (@ + 1) % 256], [kind |-> "corrupt", at |-> i - 1])

NextStream ==
    \/ CurOpen \/ CurDecodeHeader \/ CurReadEntry \/ CurReadPayload
    \/ AniOpen \/ AniDecode \/ Truncate \/ AppendJunk \/ InsertChunk \/ Corrupt

SpecStream == Init /\ [][NextStream]_vars

----------------------------------------------------------------------------
(* Properties of the encoders (specification Spec) *)

\* AniFile::encode has returned, and `stream` holds what it wrote
AniEncoded == pc \in {"ani_open", "ani_done", "ani_failed"}

\* CursorFile::encode has returned, and `stream` holds what it wrote
CurEncoded == pc \in {"cur_open", "cur_entries", "cur_payloads", "cur_done", "cur_failed"}

\* the top-level chunks of s carrying the tag
ChunksTagged(s, tag) ==
    LET cs == TopChunks(s) IN {i \in 1..Len(cs) : cs[i].tag = tag}

\* the body of the i-th top-level chunk of s
ChunkBody(s, i) == LET c == TopChunks(s)[i] IN Slice(s, c.start + 8, c.size)

\* C1: once AniFile::encode has returned Ok, the RIFF size field at bytes 4-7 equals
\* the output length minus 8, i.e. 4 (the "ACON" tag) plus the bytes of all chunks
\* written after it.  The code takes the end of the file from the stream position
\* right after patching the LIST size, so this is violated.
C1_RiffSizeIsLengthMinus8 ==
    (AniEncoded /\ enc_result = "Ok") =>
        FromLeBytes(Slice(stream, 4, 4)) = Len(stream) - 8

\* C2: decoding what CursorFile::encode wrote for a non-empty frame list gives back
\* the same frames, in order, with equal width, height, hotspot and payload.
C2_CurRoundTrip ==
    (pc = "cur_done" /\ enc_result = "Ok") =>
        /\ cur_result.status = "Ok"
        /\ cur_result.frames = cursor_file

C2_Witness ==
    /\ pc = "cur_done" /\ enc_result = "Ok" /\ cur_result.status = "Ok"
    /\ Len(cursor_file) = 2
    /\ cursor_file[1].width = 256 /\ cursor_file[2].height = 256
    /\ cursor_file[1].image_data # <<>>

\* the frames, sequence and rates of an AniFile
Content(file) == [frames |-> file.frames, sequence |-> file.sequence, rates |-> file.rates]

\* C3: decoding what AniFile::encode wrote gives back a file with the same frames
\* (width, height, hotspot, payload, duration), sequence and rates.  Violated: encode
\* writes only the payloads, and decode takes the geometry from the payload and sets
\* every duration to None.
C3_AniRoundTrip ==
    (pc = "ani_done" /\ enc_result = "Ok") =>
        /\ ani_result.status = "Ok"
        /\ Content(ani_result.file) = Content(ani_file)

\* the "seq " chunk is written iff the sequence is not 0..N; "rate" iff rates is non-empty
OptionalChunksPresence ==
    LET n == Len(ani_file.frames) IN
    /\ (ChunksTagged(stream, seq_) # {}) <=> (ani_file.sequence # Identity(n))
    /\ (ChunksTagged(stream, rate) # {}) <=> (ani_file.rates # <<>>)
    /\ Cardinality(ChunksTagged(stream, seq_)) <= 1
    /\ Cardinality(ChunksTagged(stream, rate)) <= 1
    /\ \A i \in ChunksTagged(stream, seq_) : ChunkBody(stream, i) = Words(ani_file.sequence)

\* C4 as stated: ..., and the rate chunk then holds exactly N (the number of frames)
\* 32-bit entries.  Violated when rates has another length (one rate per step).
C4_RateChunkHasFrameCountEntries ==
    (AniEncoded /\ enc_result = "Ok") =>
        /\ OptionalChunksPresence
        /\ \A i \in ChunksTagged(stream, rate) :
              TopChunks(stream)[i].size = 4 * Len(ani_file.frames)

\* C4 amended: the output has a "seq " chunk iff the sequence differs from 0..N, also
\* after with_sequence, and a "rate" chunk iff rates is non-empty, the rate chunk then
\* holding exactly the entries of rates, Len(rates) 32-bit values in order.
C4_OptionalChunks ==
    (AniEncoded /\ enc_result = "Ok") =>
        /\ OptionalChunksPresence
        /\ \A i \in ChunksTagged(stream, rate) :
              /\ TopChunks(stream)[i].size = 4 * Len(ani_file.rates)
              /\ ChunkBody(stream, i) = Words(ani_file.rates)

C4_Witness ==
    /\ AniEncoded /\ enc_result = "Ok"
    /\ Len(ani_file.frames) = 2
    /\ ani_file.sequence = <<0>>
    /\ ani_file.rates = <<1, 2, 3>>
    /\ ChunksTagged(stream, seq_) # {}
    /\ ChunksTagged(stream, rate) # {}

\* offset of the i-th icon sub-chunk when the first is at p, from the payload lengths
RECURSIVE IconStart(_, _, _)
IconStart(fs, i, p) ==
    IF i = 1 THEN p
    ELSE LET n == Len(fs[i - 1].image_data) IN
         IconStart(fs, i - 1, p) + 8 + n + (IF n % 2 = 1 THEN 1 ELSE 0)

\* C5: in the output of AniFile::encode every icon sub-chunk declares its payload
\* length; an odd payload is followed by exactly one zero byte and an even one by
\* none (the next sub-chunk, or the end of the file, comes right after); the pad
\* bytes are counted in the LIST chunk's declared size.
C5_IconPadding ==
    (AniEncoded /\ enc_result = "Ok") =>
        LET fs == ani_file.frames
            ls == ChunksTagged(stream, LIST)
        IN /\ Cardinality(ls) = 1
           /\ \A l \in ls :
                 LET list == TopChunks(stream)[l]
                     p0   == list.start + 12
                 IN /\ \A i \in 1..Len(fs) :
                          LET p == IconStart(fs, i, p0)
                              n == Len(fs[i].image_data)
                          IN /\ p + 8 + n + (n % 2) <= Len(stream)
                             /\ Slice(stream, p, 4) = icon
                             /\ FromLeBytes(Slice(stream, p + 4, 4)) = n
                             /\ Slice(stream, p + 8, n) = fs[i].image_data
                             /\ (n % 2 = 1) => stream[p + 8 + n + 1] = 0
                    /\ IconStart(fs, Len(fs) + 1, p0) = Len(stream)
                    /\ list.size = Len(stream) - p0

C5_Witness ==
    /\ AniEncoded /\ enc_result = "Ok"
    /\ Len(ani_file.frames) = 2
    /\ Len(ani_file.frames[1].image_data) % 2 = 1
    /\ Len(ani_file.frames[2].image_data) % 2 = 0

\* total payload length of the frames before the i-th
RECURSIVE SizeBefore(_, _)
SizeBefore(fs, i) == IF i = 1 THEN 0 ELSE SizeBefore(fs, i - 1) + Len(fs[i - 1].image_data)

\* C8: CursorFile::encode fails with InvalidInput and writes nothing for an empty
\* list; for N >= 1 frames it writes 00 00 02 00, N as LE16, one 16-byte entry per
\* frame (width byte, height byte with 256 as 0, 0, 0, hotspot LE16 x2, size LE32,
\* offset LE32) with offset_1 = 6 + 16 N and each next offset the previous plus the
\* previous size, then the payloads back to back; the 32x32/100-byte and
\* 256x256/50-byte frames get offsets 38 and 138.
C8_CurEncodeLayout ==
    CurEncoded =>
        LET fs == cursor_file
            n  == Len(fs)
        IN IF n = 0 THEN enc_result = "InvalidInput" /\ base = <<>>
           ELSE /\ enc_result = "Ok"
                /\ Len(base) = 6 + 16 * n + SizeBefore(fs, n + 1)
                /\ SubSeq(base, 1, 6) = <<0, 0, 2, 0, n % 256, n \div 256>>
                /\ \A i \in 1..n :
                      LET e   == Slice(base, 6 + 16 * (i - 1), 16)
                          off == 6 + 16 * n + SizeBefore(fs, i)
                      IN /\ e[1] = (IF fs[i].width = 256 THEN 0 ELSE fs[i].width)
                         /\ e[2] = (IF fs[i].height = 256 THEN 0 ELSE fs[i].height)
                         /\ e[3] = 0 /\ e[4] = 0
                         /\ e[5] + 256 * e[6] = fs[i].hotspot_x
                         /\ e[7] + 256 * e[8] = fs[i].hotspot_y
                         /\ FromLeBytes(SubSeq(e, 9, 12)) = Len(fs[i].image_data)
                         /\ FromLeBytes(SubSeq(e, 13, 16)) = off
                         /\ Slice(base, off, Len(fs[i].image_data)) = fs[i].image_data
                /\ (fs = ScenarioFrames) =>
                      /\ Slice(base, 6 + 12, 4) = <<38, 0, 0, 0>>
                      /\ Slice(base, 22 + 12, 4) = <<138, 0, 0, 0>>
                      /\ Slice(base, 22, 4) = <<0, 0, 0, 0>>

C8_Witness ==
    /\ CurEncoded /\ enc_result = "Ok"
    /\ cursor_file = ScenarioFrames
    /\ Len(stream) = 188

----------------------------------------------------------------------------
(* Properties of the decoders (specification SpecStream) *)

\* C6: CursorFile::decode returns a format error and no file whenever the resource
\* type field is not 2 and whenever the frame count field is 0; AniFile::decode
\* returns an error and no file whenever bytes 0-3 are not "RIFF" or bytes 8-11 are
\* not "ACON", the format error as soon as the 12-byte prefix is there; whatever
\* follows in the stream.
C6_FailFastOnMarkers ==
    /\ (/\ pc = "cur_done"
        /\ Len(stream) >= 6
        /\ \/ stream[3] + 256 * stream[4] # 2
           \/ stream[5] + 256 * stream[6] = 0)
       => /\ cur_result.status = "Err"
          /\ cur_result.kind = "InvalidData"
          /\ entries = <<>> /\ frames = <<>>
    /\ (/\ pc = "ani_done"
        /\ \/ Len(stream) >= 4 /\ SubSeq(stream, 1, 4) # RIFF
           \/ Len(stream) >= 12 /\ SubSeq(stream, 9, 12) # ACON)
       => /\ ani_result.status = "Err"
          /\ Len(stream) >= 12 => ani_result.kind = "InvalidData"

C6_Witness ==
    /\ pc = "cur_done"
    /\ Len(stream) > 6
    /\ stream[3] = 2 /\ stream[4] = 1
    /\ stream[5] = 2
    /\ cur_result.status = "Err"

\* C7: a stream with an extension chunk (an unknown top-level tag, or a LIST whose
\* sub-type is not "fram", of any declared size) placed at a chunk boundary decodes
\* to the same result as the stream without it.  Violated by a LIST that declares
\* fewer than 4 bytes: the sub-type is read all the same and chunk_size - 4 underflows.
C7_ExtensionChunkIgnored ==
    (pc = "ani_done" /\ edit.kind = "insert" /\ prev_result.status = "Ok") =>
        ani_result = prev_result

\* the n-byte field at `at` of the i-th directory entry of s, read off the bytes
EntryField(s, i, at, n) == FromLeBytes(Slice(s, 6 + 16 * (i - 1) + at, n))

\* the frame count field of s
CountField(s) == FromLeBytes(Slice(s, 4, 2))

\* C9: CursorFile::decode reads every directory entry before any payload, and on
\* success frame i (in directory order) holds exactly the size_i bytes of the stream
\* that start at offset_i of entry i, wherever the offsets point.
C9_PayloadByRecordedOffset ==
    /\ (frames # <<>>) => Len(entries) = count
    /\ \A i, j \in 1..Len(reads) :
          (i < j /\ reads[i].what = "image_data") => reads[j].what = "image_data"
    /\ (pc = "cur_done" /\ cur_result.status = "Ok") =>
          LET n == CountField(stream) IN
          /\ Len(cur_result.frames) = n
          /\ \A i \in 1..n :
                LET off  == EntryField(stream, i, 12, 4)
                    size == EntryField(stream, i, 8, 4)
                    f    == cur_result.frames[i]
                IN /\ off + size <= Len(stream)
                   /\ f.image_data = Slice(stream, off, size)
                   /\ f.hotspot_x = EntryField(stream, i, 4, 2)
                   /\ f.width = (IF stream[6 + 16 * (i - 1) + 1] = 0 THEN 256
                                 ELSE stream[6 + 16 * (i - 1) + 1])
                   /\ reads[1 + n + i] = [what |-> "image_data", at |-> off, len |-> size]

\* two payloads read successfully, the second stored before the first and overlapping it
C9_Witness ==
    /\ pc = "cur_done" /\ cur_result.status = "Ok"
    /\ count = 2
    /\ entries[2].offset < entries[1].offset
    /\ entries[2].offset + entries[2].size > entries[1].offset
    /\ entries[1].size > 0

\* the sub-chunks of a LIST body of s between p and limit: start, tag, size
RECURSIVE SubChunksFrom(_, _, _)
SubChunksFrom(s, p, limit) ==
    IF p + 8 > limit THEN <<>>
    ELSE LET size == FromLeBytes(Slice(s, p + 4, 4)) IN
         <<[start |-> p, tag |-> Slice(s, p, 4), size |-> size]>>
         \o SubChunksFrom(s, p + 8 + size + (size % 2), limit)

\* cutting s after k bytes leaves a chunk whose header is whole and whose body is not:
\* an anih, seq or rate body, the sub-type of a LIST, or the payload of an icon
CutInBody(s, k) ==
    LET cs == TopChunks(s) IN
    \E j \in 1..Len(cs) :
        LET c == cs[j] IN
        \/ /\ c.tag \in {anih, seq_, rate}
           /\ c.start + 8 <= k /\ k < c.start + 8 + c.size
        \/ /\ c.tag = LIST
           /\ c.start + 8 <= k /\ k < c.start + 12
        \/ /\ c.tag = LIST /\ Slice(s, c.start + 8, 4) = fram
           /\ LET subs == SubChunksFrom(s, c.start + 12, Len(s)) IN
              \E m \in 1..Len(subs) :
                 /\ subs[m].tag = icon
                 /\ subs[m].start + 8 <= k /\ k < subs[m].start + 8 + subs[m].size

\* the number of top-level chunks of s that end at or before k
RECURSIVE ChunksBefore(_, _)
ChunksBefore(cs, k) ==
    IF cs = <<>> \/ cs[1].start + 8 + cs[1].size > k THEN 0
    ELSE 1 + ChunksBefore(Tail(cs), k)

\* cutting s after k bytes leaves whole chunks and 0 to 7 bytes of the next header
CutInHeader(s, k) ==
    LET cs == TopChunks(s)
        j  == ChunksBefore(cs, k)
    IN /\ k >= 12
       /\ (j < Len(cs)) => k < cs[j + 1].start + 8

\* the file made of the first j chunks of a stream that decodes to `full` (each tag
\* occurring once)
FileOfFirstChunks(s, j, full) ==
    LET cs   == TopChunks(s)
        tags == {cs[i].tag : i \in 1..j}
        h    == IF anih \in tags THEN full.header ELSE AniHeaderNew
    IN [header   |-> h,
        frames   |-> IF LIST \in tags THEN full.frames ELSE <<>>,
        sequence |-> IF seq_ \in tags THEN full.sequence ELSE Identity(h.num_frames),
        rates    |-> IF rate \in tags THEN full.rates ELSE <<>>]

\* C10: after a valid RIFF/ACON prefix, a stream that ends inside a top-level chunk
\* header (0 to 7 bytes of it left) decodes Ok to what the whole chunks before it
\* hold; a stream that ends inside the body of a chunk whose header was read (anih,
\* seq, rate, the LIST sub-type, an icon payload) makes decode return an error.
C10_EndOfInput ==
    /\ (pc = "ani_done" /\ edit.kind = "truncate" /\ prev_result.status = "Ok"
        /\ CutInHeader(base, edit.at) /\ ~CutInBody(base, edit.at))
       => /\ ani_result.status = "Ok"
          /\ ani_result.file =
                FileOfFirstChunks(base, ChunksBefore(TopChunks(base), edit.at),
                                  prev_result.file)
    /\ (pc = "ani_done" /\ edit.kind = "truncate" /\ CutInBody(base, edit.at))
       => ani_result.status = "Err"
    /\ (pc = "ani_done" /\ edit.kind = "junk") => ani_result = prev_result

\* the stream ends 3 bytes into the payload of its second icon
C10_Witness ==
    /\ pc = "ani_done" /\ edit.kind = "truncate"
    /\ CutInBody(base, edit.at)
    /\ edit.at = Len(base) - 20
    /\ prev_result.status = "Ok"
    /\ Len(prev_result.file.frames) = 2
    /\ ani_result.status = "Err"

\* the 32-bit little-endian values a chunk body holds, in order
BodyWords(b) ==
    [i \in 1..(Len(b) \div 4) |->
        b[4 * i - 3] + 256 * b[4 * i - 2] + 65536 * b[4 * i - 1] + 16777216 * b[4 * i]]

\* C11: the sequence AniFile::decode returns for what AniFile::encode wrote: with no
\* "seq " chunk in the stream it is the identity 0, 1, ..., frame count - 1; with a
\* "seq " chunk it is exactly that chunk's body read as consecutive 32-bit
\* little-endian values, and no identity is synthesized.  The code synthesizes the
\* identity whenever the sequence it collected is empty, so a "seq " chunk with an
\* empty body is answered with the identity: violated.
C11_SequenceFromSeqChunk ==
    (pc = "ani_done" /\ ani_result.status = "Ok") =>
        LET seqs == ChunksTagged(stream, seq_) IN
        IF seqs = {}
        THEN ani_result.file.sequence = Identity(ani_result.file.header.num_frames)
        ELSE \A i \in seqs : ani_result.file.sequence = BodyWords(ChunkBody(stream, i))

\* the payloads of the icon sub-chunks of s from p up to limit, in stream order
RECURSIVE IconBodiesFrom(_, _, _)
IconBodiesFrom(s, p, limit) ==
    IF p >= limit \/ ~CanRead(s, p, 8) THEN <<>>
    ELSE LET size == FromLeBytes(Slice(s, p + 4, 4)) IN
         (IF Slice(s, p, 4) = icon THEN <<Slice(s, p + 8, size)>> ELSE <<>>)
         \o IconBodiesFrom(s, p + 8 + size + (size % 2), limit)

\* the payloads of the icon sub-chunks of the LIST "fram" chunks of s, in stream order
IconBodies(s) ==
    LET cs == TopChunks(s) IN
    Concat([j \in 1..Len(cs) |->
              IF cs[j].tag = LIST /\ cs[j].size >= 4 /\ Slice(s, cs[j].start + 8, 4) = fram
              THEN IconBodiesFrom(s, cs[j].start + 12, cs[j].start + 8 + cs[j].size)
              ELSE <<>>])

\* the geometry of frame f is what its payload holds at bytes 6, 7, 10-11 and 12-13
PeekedFromPayload(f) ==
    LET d == f.image_data IN
    /\ Len(d) >= 22
    /\ f.width = (IF d[7] = 0 THEN 256 ELSE d[7])
    /\ f.height = (IF d[8] = 0 THEN 256 ELSE d[8])
    /\ f.hotspot_x = d[11] + 256 * d[12]
    /\ f.hotspot_y = d[13] + 256 * d[14]

\* C12: every frame AniFile::decode returns has its width and height from payload
\* bytes 6 and 7 (0 standing for 256) and its hotspot from the little-endian 16-bit
\* values at payload bytes 10-11 and 12-13, whatever the payload's resource type; for
\* a stream whose chunks are whole (1 to 7 stray bytes may follow them), the payloads
\* of the frames are the bodies of the icon sub-chunks in stream order, and a body
\* shorter than 22 bytes makes the decode fail with InvalidData.
C12_EmbeddedResourcePeek ==
    (pc = "ani_done") =>
        /\ (ani_result.status = "Ok") =>
               \A i \in 1..Len(ani_result.file.frames) :
                   PeekedFromPayload(ani_result.file.frames[i])
        /\ (edit.kind \in {"none", "junk"}) =>
               LET bodies == IconBodies(IF edit = NoEdit THEN stream ELSE base) IN
               IF \E i \in 1..Len(bodies) : Len(bodies[i]) < 22
               THEN ani_result.status = "Err" /\ ani_result.kind = "InvalidData"
               ELSE /\ ani_result.status = "Ok"
                    /\ [i \in 1..Len(ani_result.file.frames) |->
                           ani_result.file.frames[i].image_data] = bodies

C12_Witness ==
    /\ pc = "ani_done" /\ edit = NoEdit
    /\ ani_result.status = "Ok"
    /\ IconBodies(stream) = <<IconResource>>
    /\ ani_result.file.frames = <<AniFrame(256, 16, 1, 32, IconResource, None)>>

====
